---------------------------- MODULE Spec2Model ----------------------------
(***************************************************************************)
(* A model of the router core of qpid-dispatch                             *)
(* (src/router_core/router_core.c): the core's lifecycle (qdr_core,        *)
(* qdr_core_free) together with the action queue and its worker thread,    *)
(* the address registry (qdr_address, qdr_add_local_address), the link and *)
(* node reference lists (qdr_add_link_ref, qdr_del_link_ref,               *)
(* qdr_add_node_ref, qdr_del_node_ref) and the buffer-chain field          *)
(* (qdr_field, qdr_field_free).                                            *)
(*                                                                         *)
(* Three specifications share the module's variables:                      *)
(*   Spec          the core engine: producers, the worker, qdr_core_free   *)
(*   SpecRegistry  the registry and reference-list operations, applied to  *)
(*                 a registry whose hash index has been created            *)
(*   SpecField     qdr_field run statement by statement on bounded inputs  *)
(***************************************************************************)
EXTENDS Integers, Sequences, FiniteSets, TLC

VARIABLES
    \* ---- qdr_core_t: threading support
    running,        \* core->running
    action_list,    \* core->action_list, head first
    lock,           \* holder of core->lock
    \* ---- qdr_core_t: address registry
    addr_hash,      \* core->addr_hash: no hash index, or a map from key to address
    addrs,          \* core->addrs: the ordered address list
    addr_pool,      \* the qdr_address_t objects allocated so far
    ref_pool,       \* the qdr_link_ref_t objects allocated so far
    link_ref,       \* link->ref of every link
    \* ---- threads
    workerPc,       \* position of the core thread
    current,        \* the action the core thread has dequeued
    prodPc,         \* position of each producer inside enqueue
    prodNext,       \* number of enqueue calls each producer has begun
    destroyPc,      \* position of the thread calling qdr_core_free
    crashed,        \* the process has dereferenced a null pointer
    \* ---- history
    enq_order,      \* the actions in the order their inserts completed
    executed,       \* the actions in the order the worker executed them
    stop_len,       \* how many actions had been executed when running was cleared
    calls,          \* the registry calls made so far, with their results
    \* ---- qdr_field
    f_pc, f_text, f_cap, f_length, f_ilength, f_off, f_buffers, f_iterator,
    f_absent,       \* the text pointer given to qdr_field is null
    f_heap          \* the buffer, iterator and field pools

engineVars   == <<running, action_list, lock, workerPc, current, prodPc,
                  prodNext, destroyPc, crashed, enq_order, executed,
                  stop_len>>
registryVars == <<addr_hash, addrs, addr_pool, ref_pool, link_ref>>
fieldVars    == <<f_pc, f_text, f_cap, f_length, f_ilength, f_off,
                  f_buffers, f_iterator, f_absent, f_heap>>
vars         == <<engineVars, registryVars, calls, fieldVars>>

-----------------------------------------------------------------------------
(* Bounds of the model *)

NumProducers   == 2     \* producer threads
MaxActions     == 3     \* enqueue calls in one behaviour
MaxCalls       == 3     \* registry calls in one behaviour of SpecRegistry
NumLinks       == 2     \* qdr_link_t objects
MaxLen         == 4     \* longest enumerated text given to qdr_field
MaxCap         == 3     \* largest enumerated buffer capacity
ScenarioLen    == 10000 \* length of the one long text given to qdr_field
ScenarioCap    == 4096  \* buffer capacity the long text is chunked with

(* Program constants *)

AddrStringSize == 1000  \* char addr_string[1000]
CharL          == 76    \* 'L', the prefix of the "L%s" format

NULL == 0

\* thread identities: the producers, the core thread, and the
\* thread that calls qdr_core_free
Producers == 1 .. NumProducers
Worker    == NumProducers + 1
Destroyer == NumProducers + 2
NoThread  == NULL
Links     == 1 .. NumLinks
Nodes     == {1}
Semantics == {1, 2}

-----------------------------------------------------------------------------
(* Address strings: C strings, sequences of non-zero bytes *)

news  == <<110, 101, 119, 115>>
Lnews == <<CharL>> \o news

\* two addresses that differ only in their last byte, each as long as the
\* longest string "L%s" can hold in addr_string without truncation, plus one
LongPrefix == [i \in 1 .. (AddrStringSize - 2) |-> 97]
LongA == LongPrefix \o <<98>>
LongB == LongPrefix \o <<99>>

Addresses == {news, Lnews, LongA, LongB}

Take(s, n) == IF Len(s) <= n THEN s ELSE SubSeq(s, 1, n)

\* snprintf(addr_string, sizeof(addr_string), "L%s", address): at most
\* sizeof(addr_string) - 1 bytes are stored before the terminator
snprintf_L(address) == Take(<<CharL>> \o address, AddrStringSize - 1)

-----------------------------------------------------------------------------
(* The hash index (qd_hash): a finite map from key to address *)

\* core->addr_hash is a pointer: no hash index (the null pointer), or one
\* table
NoHash == <<>>

EmptyHash == << <<>> >>

qd_hash_retrieve(hash, key) ==
    IF key \in DOMAIN hash[1] THEN hash[1][key] ELSE NULL

qd_hash_insert(hash, key, val) ==
    << [k \in (DOMAIN hash[1]) \cup {key} |->
           IF k = key THEN val ELSE hash[1][k]] >>

\* qd_router_get_forwarder(semantics): the forwarder is a function of the
\* semantics alone
qd_router_get_forwarder(semantics) == <<"forwarder", semantics>>

\* qdr_address(semantics): a zeroed address bound to semantics
qdr_address(semantics) ==
    [semantics      |-> semantics,
     forwarder      |-> qd_router_get_forwarder(semantics),
     block_deletion |-> FALSE,
     hash_handle    |-> <<>>,
     rlinks         |-> <<>>,
     rnodes         |-> <<>>]


-----------------------------------------------------------------------------
(* Registry operations.  calls records each call and what it returned. *)

Call(op, address, semantics, list, obj, ret) ==
    [op |-> op, address |-> address, semantics |-> semantics,
     list |-> list, obj |-> obj, ret |-> ret]

\* qdr_add_local_address creating an address without consulting the index
qdr_add_local_address_no_lookup(address, semantics) ==
    LET addr_string == snprintf_L(address)
        addr        == Len(addr_pool) + 1
    IN  /\ addr_pool' = Append(addr_pool,
               [qdr_address(semantics) EXCEPT
                   !.hash_handle = addr_string,
                   !.block_deletion = TRUE])
        /\ addr_hash' = qd_hash_insert(addr_hash, addr_string, addr)
        /\ addrs' = Append(addrs, addr)
        /\ calls' = Append(calls, Call("add_local_address", address,
                                       semantics, NULL, NULL, addr))

\* qdr_add_local_address putting the address it found on the list again
qdr_add_local_address_relist(address, semantics) ==
    LET addr_string == snprintf_L(address)
        found       == qd_hash_retrieve(addr_hash, addr_string)
        addr        == Len(addr_pool) + 1
    IN  IF found # NULL
        THEN /\ UNCHANGED <<addr_hash, addr_pool>>
             /\ addrs' = Append(addrs, found)
             /\ calls' = Append(calls, Call("add_local_address", address,
                                            semantics, NULL, NULL, found))
        ELSE /\ addr_pool' = Append(addr_pool,
                    [qdr_address(semantics) EXCEPT
                        !.hash_handle = addr_string,
                        !.block_deletion = TRUE])
             /\ addr_hash' = qd_hash_insert(addr_hash, addr_string, addr)
             /\ addrs' = Append(addrs, addr)
             /\ calls' = Append(calls, Call("add_local_address", address,
                                            semantics, NULL, NULL, addr))

\* qdr_add_local_address indexing a new address without putting it on
\* the ordered list
qdr_add_local_address_no_list(address, semantics) ==
    LET addr_string == snprintf_L(address)
        found       == qd_hash_retrieve(addr_hash, addr_string)
        addr        == Len(addr_pool) + 1
    IN  IF found # NULL
        THEN /\ UNCHANGED <<addr_hash, addrs, addr_pool>>
             /\ calls' = Append(calls, Call("add_local_address", address,
                                            semantics, NULL, NULL, found))
        ELSE /\ addr_pool' = Append(addr_pool,
                    [qdr_address(semantics) EXCEPT
                        !.hash_handle = addr_string,
                        !.block_deletion = TRUE])
             /\ addr_hash' = qd_hash_insert(addr_hash, addr_string, addr)
             /\ addrs' = addrs
             /\ calls' = Append(calls, Call("add_local_address", address,
                                            semantics, NULL, NULL, addr))

\* qdr_add_local_address(core, address, semantics), for a created hash index
qdr_add_local_address(address, semantics) ==
    LET addr_string == snprintf_L(address)
        found       == qd_hash_retrieve(addr_hash, addr_string)
        addr        == Len(addr_pool) + 1
    IN  IF found # NULL
        THEN /\ UNCHANGED <<addr_hash, addrs, addr_pool>>
             /\ calls' = Append(calls, Call("add_local_address", address,
                                            semantics, NULL, NULL, found))
        ELSE /\ addr_pool' = Append(addr_pool,
                    [qdr_address(semantics) EXCEPT
                        !.hash_handle = addr_string,
                        !.block_deletion = TRUE])
             /\ addr_hash' = qd_hash_insert(addr_hash, addr_string, addr)
             /\ addrs' = Append(addrs, addr)
             /\ calls' = Append(calls, Call("add_local_address", address,
                                            semantics, NULL, NULL, addr))

\* qdr_add_link_ref(&addr->rlinks, link)
qdr_add_link_ref(a, link) ==
    LET ref == Len(ref_pool) + 1
    IN  /\ ref_pool' = Append(ref_pool, [link |-> link])
        /\ link_ref' = [link_ref EXCEPT ![link] = ref]
        /\ addr_pool' = [addr_pool EXCEPT ![a].rlinks = Append(@, ref)]
        /\ calls' = Append(calls, Call("add_link_ref", <<>>, NULL, a, link, ref))

\* qdr_del_link_ref unlinking the tail entry whatever link it refers to
qdr_del_link_ref_drop_tail(a, link) ==
    /\ UNCHANGED <<ref_pool, link_ref>>
    /\ addr_pool' = [addr_pool EXCEPT ![a].rlinks =
                        IF @ = <<>> THEN @ ELSE SubSeq(@, 1, Len(@) - 1)]
    /\ calls' = Append(calls, Call("del_link_ref", <<>>, NULL, a, link, NULL))

\* qdr_del_link_ref(&addr->rlinks, link): the body is empty
qdr_del_link_ref(a, link) ==
    /\ UNCHANGED <<ref_pool, link_ref, addr_pool>>
    /\ calls' = Append(calls, Call("del_link_ref", <<>>, NULL, a, link, NULL))

\* qdr_add_node_ref(&addr->rnodes, rnode): the body is empty
qdr_add_node_ref(a, rnode) ==
    /\ UNCHANGED <<ref_pool, link_ref, addr_pool>>
    /\ calls' = Append(calls, Call("add_node_ref", <<>>, NULL, a, rnode, NULL))

\* qdr_del_node_ref(&addr->rnodes, rnode): the body is empty
qdr_del_node_ref(a, rnode) ==
    /\ UNCHANGED <<ref_pool, link_ref, addr_pool>>
    /\ calls' = Append(calls, Call("del_node_ref", <<>>, NULL, a, rnode, NULL))

-----------------------------------------------------------------------------
(* The core engine *)

\* the actions a producer may enqueue: an opaque one, and one whose handler
\* calls qdr_add_local_address(core, "Lnews", 1)
ActionOps == {"opaque", "add_local_address"}

Action(p, i, op) == [prod |-> p, seq |-> i, op |-> op]

\* sys_cond_signal(core->cond): wakes the core thread if it is waiting
sys_cond_signal(pc) == IF pc = "waiting" THEN "woken" ELSE pc

\* qdr_core() with core->running left as ZERO(core) made it
qdr_core_not_running ==
    /\ running = FALSE
    /\ action_list = <<>>
    /\ lock = NoThread
    /\ addr_hash = NoHash
    /\ addrs = <<>>
    /\ workerPc = "lock"

\* qdr_core(): the state when the constructor returns
qdr_core ==
    /\ running = TRUE
    /\ action_list = <<>>
    /\ lock = NoThread
    /\ addr_hash = NoHash
    /\ addrs = <<>>
    /\ workerPc = "lock"

\* ---- enqueue(core, action)

EnqueueLock(p) ==
    /\ ~crashed
    /\ destroyPc = "idle"
    /\ prodPc[p] = "idle"
    /\ Len(enq_order) + Cardinality({q \in Producers : prodPc[q] # "idle"})
          < MaxActions
    /\ lock = NoThread
    /\ lock' = p
    /\ prodPc' = [prodPc EXCEPT ![p] = "insert"]
    /\ prodNext' = [prodNext EXCEPT ![p] = @ + 1]
    /\ UNCHANGED <<running, action_list, workerPc, current, destroyPc,
                   crashed, enq_order, executed, stop_len>>
    /\ UNCHANGED <<registryVars, calls, fieldVars>>

EnqueueInsert(p, op) ==
    /\ ~crashed
    /\ prodPc[p] = "insert"
    /\ action_list' = Append(action_list, Action(p, prodNext[p], op))
    /\ enq_order' = Append(enq_order, Action(p, prodNext[p], op))
    /\ workerPc' = sys_cond_signal(workerPc)
    /\ prodPc' = [prodPc EXCEPT ![p] = "unlock"]
    /\ UNCHANGED <<running, lock, current, prodNext, destroyPc, crashed,
                   executed, stop_len>>
    /\ UNCHANGED <<registryVars, calls, fieldVars>>

EnqueueUnlock(p) ==
    /\ ~crashed
    /\ prodPc[p] = "unlock"
    /\ lock' = NoThread
    /\ prodPc' = [prodPc EXCEPT ![p] = "idle"]
    /\ UNCHANGED <<running, action_list, workerPc, current, prodNext,
                   destroyPc, crashed, enq_order, executed, stop_len>>
    /\ UNCHANGED <<registryVars, calls, fieldVars>>

\* ---- router_core_thread(core)

WorkerLock ==
    /\ ~crashed
    /\ workerPc \in {"lock", "woken"}
    /\ lock = NoThread
    /\ lock' = Worker
    /\ workerPc' = "check"
    /\ UNCHANGED <<running, action_list, current, prodPc, prodNext,
                   destroyPc, crashed, enq_order, executed, stop_len>>
    /\ UNCHANGED <<registryVars, calls, fieldVars>>

WorkerCheck ==
    /\ ~crashed
    /\ workerPc = "check"
    /\ workerPc' = IF action_list = <<>> /\ running THEN "cond_wait"
                                                    ELSE "decide"
    /\ UNCHANGED <<running, action_list, lock, current, prodPc, prodNext,
                   destroyPc, crashed, enq_order, executed, stop_len>>
    /\ UNCHANGED <<registryVars, calls, fieldVars>>

WorkerWait ==
    /\ ~crashed
    /\ workerPc = "cond_wait"
    /\ lock' = NoThread
    /\ workerPc' = "waiting"
    /\ UNCHANGED <<running, action_list, current, prodPc, prodNext,
                   destroyPc, crashed, enq_order, executed, stop_len>>
    /\ UNCHANGED <<registryVars, calls, fieldVars>>

\* the core thread going on to execute the action with the lock still held
WorkerDecide_keep_lock ==
    /\ ~crashed
    /\ workerPc = "decide"
    /\ IF ~running /\ action_list = <<>>
       THEN /\ workerPc' = "exited"
            /\ lock' = NoThread
            /\ UNCHANGED <<action_list, current>>
       ELSE /\ action_list # <<>>
            /\ current' = Head(action_list)
            /\ action_list' = Tail(action_list)
            /\ workerPc' = "exec"
            /\ lock' = lock
    /\ UNCHANGED <<running, prodPc, prodNext, destroyPc, crashed,
                   enq_order, executed, stop_len>>
    /\ UNCHANGED <<registryVars, calls, fieldVars>>

WorkerDecide ==
    /\ ~crashed
    /\ workerPc = "decide"
    /\ IF ~running /\ action_list = <<>>
       THEN /\ workerPc' = "exited"
            /\ UNCHANGED <<action_list, current>>
       ELSE /\ action_list # <<>>
            /\ current' = Head(action_list)
            /\ action_list' = Tail(action_list)
            /\ workerPc' = "exec"
    /\ lock' = NoThread
    /\ UNCHANGED <<running, prodPc, prodNext, destroyPc, crashed,
                   enq_order, executed, stop_len>>
    /\ UNCHANGED <<registryVars, calls, fieldVars>>

WorkerExecute ==
    /\ ~crashed
    /\ workerPc = "exec"
    /\ IF current.op = "add_local_address"
       THEN IF addr_hash = NoHash
            THEN /\ crashed' = TRUE
                 /\ workerPc' = "crashed"
                 /\ UNCHANGED <<executed, registryVars, calls>>
            ELSE /\ qdr_add_local_address(Lnews, 1)
                 /\ executed' = Append(executed, current)
                 /\ workerPc' = "lock"
                 /\ UNCHANGED <<crashed, ref_pool, link_ref>>
       ELSE /\ executed' = Append(executed, current)
            /\ workerPc' = "lock"
            /\ UNCHANGED <<crashed, registryVars, calls>>
    /\ UNCHANGED <<running, action_list, lock, current, prodPc, prodNext,
                   destroyPc, enq_order, stop_len>>
    /\ UNCHANGED fieldVars

\* ---- qdr_core_free(core)

\* the call itself: the caller has stopped enqueuing
qdr_core_free_call ==
    /\ ~crashed
    /\ destroyPc = "idle"
    /\ \A p \in Producers : prodPc[p] = "idle"
    /\ destroyPc' = "stop"
    /\ UNCHANGED <<running, action_list, lock, workerPc, current, prodPc,
                   prodNext, crashed, enq_order, executed, stop_len>>
    /\ UNCHANGED <<registryVars, calls, fieldVars>>

\* core->running = false
qdr_core_free_stop ==
    /\ ~crashed
    /\ destroyPc = "stop"
    /\ running' = FALSE
    /\ stop_len' = Len(executed)
    /\ destroyPc' = "signal"
    /\ UNCHANGED <<action_list, lock, workerPc, current, prodPc, prodNext,
                   crashed, enq_order, executed>>
    /\ UNCHANGED <<registryVars, calls, fieldVars>>

\* sys_cond_signal(core->cond)
qdr_core_free_signal ==
    /\ ~crashed
    /\ destroyPc = "signal"
    /\ workerPc' = sys_cond_signal(workerPc)
    /\ destroyPc' = "join"
    /\ UNCHANGED <<running, action_list, lock, current, prodPc, prodNext,
                   crashed, enq_order, executed, stop_len>>
    /\ UNCHANGED <<registryVars, calls, fieldVars>>

\* qdr_core_free going on to free the core without waiting for the thread
qdr_core_free_no_join ==
    /\ ~crashed
    /\ destroyPc = "join"
    /\ destroyPc' = "free"
    /\ UNCHANGED <<running, action_list, lock, workerPc, current, prodPc,
                   prodNext, crashed, enq_order, executed, stop_len>>
    /\ UNCHANGED <<registryVars, calls, fieldVars>>

\* sys_thread_join(core->thread)
qdr_core_free_join ==
    /\ ~crashed
    /\ destroyPc = "join"
    /\ workerPc = "exited"
    /\ destroyPc' = "free"
    /\ UNCHANGED <<running, action_list, lock, workerPc, current, prodPc,
                   prodNext, crashed, enq_order, executed, stop_len>>
    /\ UNCHANGED <<registryVars, calls, fieldVars>>

\* sys_thread_free, sys_cond_free, sys_mutex_free, free(core)
qdr_core_free_release ==
    /\ ~crashed
    /\ destroyPc = "free"
    /\ destroyPc' = "done"
    /\ UNCHANGED <<running, action_list, lock, workerPc, current, prodPc,
                   prodNext, crashed, enq_order, executed, stop_len>>
    /\ UNCHANGED <<registryVars, calls, fieldVars>>

-----------------------------------------------------------------------------
(* Initial states *)

NoAction == Action(NULL, NULL, "none")

\* the pools qdr_field and qdr_field_free draw on and give back to: the
\* buffers in use (base: those other owners hold), the iterators and
\* fields in use, how many buffers this field took and gave back, and
\* whether something was given back that was not in use
Heap(base) ==
    [buffers |-> base, base |-> base, iterators |-> 0, fields |-> 0,
     taken |-> 0, given |-> 0, bad_free |-> FALSE]

EngineRest ==
    /\ current = NoAction
    /\ prodPc = [p \in Producers |-> "idle"]
    /\ prodNext = [p \in Producers |-> 0]
    /\ destroyPc = "idle"
    /\ crashed = FALSE
    /\ enq_order = <<>>
    /\ executed = <<>>
    /\ stop_len = 0

RegistryRest ==
    /\ addr_pool = <<>>
    /\ ref_pool = <<>>
    /\ link_ref = [l \in Links |-> NULL]
    /\ calls = <<>>

FieldIdle ==
    /\ f_pc = "idle"
    /\ f_text = <<>>
    /\ f_cap = 0
    /\ f_length = 0
    /\ f_ilength = 0
    /\ f_off = 0
    /\ f_buffers = <<>>
    /\ f_iterator = NULL
    /\ f_absent = FALSE
    /\ f_heap = Heap({})

Init == qdr_core /\ EngineRest /\ RegistryRest /\ FieldIdle

Next ==
    \/ \E p \in Producers : EnqueueLock(p)
    \/ \E p \in Producers, op \in ActionOps : EnqueueInsert(p, op)
    \/ \E p \in Producers : EnqueueUnlock(p)
    \/ WorkerLock
    \/ WorkerCheck
    \/ WorkerWait
    \/ WorkerDecide
    \/ WorkerExecute
    \/ qdr_core_free_call
    \/ qdr_core_free_stop
    \/ qdr_core_free_signal
    \/ qdr_core_free_join
    \/ qdr_core_free_release

Spec == Init /\ [][Next]_vars

-----------------------------------------------------------------------------
(* The registry operations called one after another *)

\* the registry of a core whose hash index has been created
InitRegistry ==
    /\ running = TRUE
    /\ action_list = <<>>
    /\ lock = NoThread
    /\ workerPc = "lock"
    /\ addr_hash = EmptyHash
    /\ addrs = <<>>
    /\ EngineRest /\ RegistryRest /\ FieldIdle

RegAddLocalAddress(address, semantics) ==
    /\ Len(calls) < MaxCalls
    /\ qdr_add_local_address(address, semantics)
    /\ UNCHANGED <<ref_pool, link_ref, engineVars, fieldVars>>

RegAddLinkRef(a, link) ==
    /\ Len(calls) < MaxCalls
    /\ qdr_add_link_ref(a, link)
    /\ UNCHANGED <<addr_hash, addrs, engineVars, fieldVars>>

RegDelLinkRef(a, link) ==
    /\ Len(calls) < MaxCalls
    /\ qdr_del_link_ref(a, link)
    /\ UNCHANGED <<addr_hash, addrs, engineVars, fieldVars>>

RegAddNodeRef(a, rnode) ==
    /\ Len(calls) < MaxCalls
    /\ qdr_add_node_ref(a, rnode)
    /\ UNCHANGED <<addr_hash, addrs, engineVars, fieldVars>>

RegDelNodeRef(a, rnode) ==
    /\ Len(calls) < MaxCalls
    /\ qdr_del_node_ref(a, rnode)
    /\ UNCHANGED <<addr_hash, addrs, engineVars, fieldVars>>

NextRegistry ==
    \/ \E address \in Addresses, semantics \in Semantics :
          RegAddLocalAddress(address, semantics)
    \/ \E a \in 1 .. Len(addr_pool), link \in Links : RegAddLinkRef(a, link)
    \/ \E a \in 1 .. Len(addr_pool), link \in Links : RegDelLinkRef(a, link)
    \/ \E a \in 1 .. Len(addr_pool), rnode \in Nodes : RegAddNodeRef(a, rnode)
    \/ \E a \in 1 .. Len(addr_pool), rnode \in Nodes : RegDelNodeRef(a, rnode)

SpecRegistry == InitRegistry /\ [][NextRegistry]_vars

\* the engine of a core whose hash index has been created
SpecCreated == InitRegistry /\ [][Next]_vars

-----------------------------------------------------------------------------
(* qdr_field(text), statement by statement *)

Bytes == {0, 1, 2}

RECURSIVE SeqsOver(_, _)
SeqsOver(S, n) ==
    IF n = 0 THEN {<<>>}
    ELSE LET shorter == SeqsOver(S, n - 1)
         IN  shorter \cup {Append(t, b) : t \in {u \in shorter : Len(u) = n - 1},
                                          b \in S}

\* the memory text points at: the bytes up to a terminator, which is the
\* first zero byte or, when there is none, the one after the last byte
Texts == SeqsOver(Bytes, MaxLen)
ScenarioText == [i \in 1 .. ScenarioLen |-> 1 + (i % 2)]

\* strlen(text): the number of bytes before the terminator
strlen(text) ==
    IF \E i \in 1 .. Len(text) : text[i] = 0
    THEN (CHOOSE i \in 1 .. Len(text) :
              text[i] = 0 /\ \A j \in 1 .. (i - 1) : text[j] # 0) - 1
    ELSE Len(text)

\* size_t copy = length > cap ? cap : length, with a byte of every buffer
\* held back
copy_len_short(length, cap) == IF length > cap - 1 THEN cap - 1 ELSE length

\* size_t copy = length > cap ? cap : length
copy_len(length, cap) == IF length > cap THEN cap ELSE length

\* a buffer another owner holds when qdr_field is called
ForeignBuffer == NULL

InitField ==
    /\ qdr_core /\ EngineRest /\ RegistryRest
    /\ f_pc = "call"
    /\ \/ f_text \in Texts /\ f_cap \in 1 .. MaxCap /\ f_absent = FALSE
       \/ f_text = ScenarioText /\ f_cap = ScenarioCap /\ f_absent = FALSE
       \/ f_text = <<>> /\ f_cap \in 1 .. MaxCap /\ f_absent = TRUE
    /\ f_length = 0
    /\ f_ilength = 0
    /\ f_off = 0
    /\ f_buffers = <<>>
    /\ f_iterator = NULL
    /\ f_heap \in {Heap({}), Heap({ForeignBuffer})}

\* lines 76-85: the lengths, the early return, the zeroed field.
\* strlen of a null pointer is undefined: the process faults on the read,
\* or, where address zero can be read and holds a zero byte, the text is
\* taken to be empty.
qdr_field_enter ==
    /\ f_pc = "call"
    /\ IF f_absent
       THEN /\ f_pc' \in {"crashed", "returned_null"}
            /\ UNCHANGED <<f_length, f_ilength, f_heap>>
       ELSE /\ f_length' = strlen(f_text)
            /\ f_ilength' = strlen(f_text)
            /\ f_pc' = IF strlen(f_text) = 0 THEN "returned_null" ELSE "loop"
            /\ f_heap' = IF strlen(f_text) = 0 THEN f_heap
                         ELSE [f_heap EXCEPT !.fields = @ + 1]
    /\ UNCHANGED <<f_text, f_cap, f_off, f_buffers, f_iterator, f_absent>>
    /\ UNCHANGED <<engineVars, registryVars, calls>>

\* the loop with text += copy left out
qdr_field_loop_no_advance ==
    /\ f_pc = "loop"
    /\ f_length > 0
    /\ LET copy == copy_len(f_length, f_cap)
           buf  == Len(f_buffers) + 1
       IN  /\ f_buffers' = Append(f_buffers, SubSeq(f_text, 1, copy))
           /\ f_length' = f_length - copy
           /\ f_off' = f_off
           /\ f_heap' = [f_heap EXCEPT !.buffers = @ \cup {buf},
                                       !.taken = @ + 1]
    /\ UNCHANGED <<f_pc, f_text, f_cap, f_ilength, f_iterator, f_absent>>
    /\ UNCHANGED <<engineVars, registryVars, calls>>

\* lines 86-95: one pass of the loop
qdr_field_loop ==
    /\ f_pc = "loop"
    /\ f_length > 0
    /\ LET copy == copy_len(f_length, f_cap)
           buf  == Len(f_buffers) + 1
       IN  /\ f_buffers' = Append(f_buffers,
                                  SubSeq(f_text, f_off + 1, f_off + copy))
           /\ f_length' = f_length - copy
           /\ f_off' = f_off + copy
           /\ f_heap' = [f_heap EXCEPT !.buffers = @ \cup {buf},
                                       !.taken = @ + 1]
    /\ UNCHANGED <<f_pc, f_text, f_cap, f_ilength, f_iterator, f_absent>>
    /\ UNCHANGED <<engineVars, registryVars, calls>>

\* lines 97-99: the iterator over the chain, and the return
qdr_field_return ==
    /\ f_pc = "loop"
    /\ f_length = 0
    /\ f_iterator' = [head |-> 1, offset |-> 0, length |-> f_ilength]
    /\ f_heap' = [f_heap EXCEPT !.iterators = @ + 1]
    /\ f_pc' = "returned"
    /\ UNCHANGED <<f_text, f_cap, f_length, f_ilength, f_off, f_buffers,
                   f_absent>>
    /\ UNCHANGED <<engineVars, registryVars, calls>>

\* qdr_field_free with the buffers of the chain left in use
qdr_field_free_keep_buffers ==
    /\ f_pc \in {"returned", "returned_null"}
    /\ IF f_pc = "returned"
       THEN /\ f_heap' = [f_heap EXCEPT
                   !.iterators = IF @ > 0 THEN @ - 1 ELSE @,
                   !.fields = IF @ > 0 THEN @ - 1 ELSE @,
                   !.bad_free = @ \/ f_heap.iterators = 0
                                  \/ f_heap.fields = 0]
            /\ f_pc' = "freed"
            /\ UNCHANGED f_buffers
       ELSE /\ f_pc' = "freed_null"
            /\ UNCHANGED <<f_heap, f_buffers>>
    /\ UNCHANGED <<f_text, f_cap, f_length, f_ilength, f_off, f_iterator,
                   f_absent>>
    /\ UNCHANGED <<engineVars, registryVars, calls>>

\* qdr_field_free(field), lines 103-110, on what qdr_field returned
qdr_field_free ==
    /\ f_pc \in {"returned", "returned_null"}
    /\ IF f_pc = "returned"
       THEN LET chain == 1 .. Len(f_buffers)
            IN  /\ f_heap' = [f_heap EXCEPT
                       !.iterators = IF @ > 0 THEN @ - 1 ELSE @,
                       !.buffers = @ \ chain,
                       !.given = @ + Len(f_buffers),
                       !.fields = IF @ > 0 THEN @ - 1 ELSE @,
                       !.bad_free = @ \/ f_heap.iterators = 0
                                      \/ ~(chain \subseteq f_heap.buffers)
                                      \/ f_heap.fields = 0]
                /\ f_buffers' = <<>>
                /\ f_pc' = "freed"
       ELSE /\ f_pc' = "freed_null"
            /\ UNCHANGED <<f_heap, f_buffers>>
    /\ UNCHANGED <<f_text, f_cap, f_length, f_ilength, f_off, f_iterator,
                   f_absent>>
    /\ UNCHANGED <<engineVars, registryVars, calls>>

NextField ==
    \/ qdr_field_enter
    \/ qdr_field_loop
    \/ qdr_field_return
    \/ qdr_field_free

SpecField == InitField /\ [][NextField]_vars

-----------------------------------------------------------------------------
(* Claims about the core engine, checked under Spec *)

Range(s) == {s[i] : i \in 1 .. Len(s)}

\* the action the worker has dequeued and not finished executing
InFlight == IF workerPc \in {"exec", "crashed"} THEN <<current>> ELSE <<>>

\* C1: every enqueued action is executed exactly once and in the order the
\* inserts completed: the executed actions, the one in execution and the
\* queued ones are together exactly the inserted ones in insertion order, a
\* producer's actions are executed in the order it enqueued them, the
\* worker never sleeps on a non-empty queue, and when the worker has exited
\* every enqueue call that was made has had its action executed.
C1_ExactlyOnceInOrder ==
    /\ executed \o InFlight \o action_list = enq_order
    /\ \A i, j \in 1 .. Len(executed) :
          (i < j /\ executed[i].prod = executed[j].prod)
              => executed[i].seq < executed[j].seq
    /\ \A i, j \in 1 .. Len(executed) : i # j => executed[i] # executed[j]
    /\ workerPc = "waiting" => action_list = <<>>
    /\ workerPc = "exited" =>
          /\ executed = enq_order
          /\ \A p \in Producers :
                Cardinality({i \in 1 .. Len(executed) : executed[i].prod = p})
                    = prodNext[p]

\* two producers' actions, interleaved, all executed before the exit
C1_Witness ==
    /\ workerPc = "exited"
    /\ Len(executed) = MaxActions
    /\ executed[1].prod # executed[2].prod

\* C2: once qdr_core_free has sent its one signal, the worker is not
\* blocked on the condition variable.
C2_NoLostWakeup ==
    destroyPc \in {"join", "free", "done"} => workerPc # "waiting"

\* C3: the actions enqueued before qdr_core_free was called have all been
\* executed when the worker has exited and when the join has returned; and
\* a worker that sleeps after qdr_core_free's signal has left none of them
\* unexecuted either.
C3_DrainedBeforeExit ==
    /\ (workerPc = "exited" \/ destroyPc \in {"free", "done"}) =>
          /\ action_list = <<>>
          /\ InFlight = <<>>
          /\ Range(enq_order) \subseteq Range(executed)
          /\ Len(executed) = Len(enq_order)
    /\ (workerPc = "waiting" /\ destroyPc = "join") =>
          Range(enq_order) \subseteq Range(executed)

\* qdr_core_free has returned, and two actions were executed after it had
\* cleared the running flag
C3_Witness ==
    /\ destroyPc = "done"
    /\ Len(executed) >= stop_len + 2

\* C4: a thread that is about to read or write the running flag or the
\* action list holds the lock: the worker at its checks and its dequeue, a
\* producer at its insert, the caller of qdr_core_free at the store to
\* core->running.
C4_AccessUnderLock ==
    /\ workerPc \in {"check", "decide"} => lock = Worker
    /\ \A p \in Producers : prodPc[p] = "insert" => lock = p
    /\ destroyPc = "stop" => lock = Destroyer

\* C5: once running is false the worker starts executing no action, and
\* it does not go to sleep on the condition variable: it sees the flag at
\* its next check.
C5_NoActionAfterTeardown ==
    /\ [][~running => ~(workerPc = "decide" /\ workerPc' = "exec")]_vars
    /\ [][~running => ~(workerPc = "cond_wait" /\ workerPc' = "waiting")]_vars

\* C8: an action calling qdr_add_local_address(core, "Lnews", ...) that the
\* worker of a new core takes up is processed, and from then on the
\* registry holds under "Lnews" an address with block_deletion set and
\* both reference lists empty.
C8_StoredUnderGivenKey ==
    /\ workerPc # "crashed"
    /\ (\E i \in 1 .. Len(executed) : executed[i].op = "add_local_address")
          => /\ addr_hash # NoHash
             /\ qd_hash_retrieve(addr_hash, Lnews) # NULL
             /\ LET a == addr_pool[qd_hash_retrieve(addr_hash, Lnews)]
                IN  a.block_deletion /\ a.rlinks = <<>> /\ a.rnodes = <<>>

-----------------------------------------------------------------------------
(* Claims about the registry, checked under SpecRegistry *)

AddLocalCalls == {i \in 1 .. Len(calls) : calls[i].op = "add_local_address"}

\* the first call whose address was stored under the same key as call i's
FirstWithKeyOf(i) ==
    CHOOSE k \in AddLocalCalls :
        /\ snprintf_L(calls[k].address) = snprintf_L(calls[i].address)
        /\ \A m \in AddLocalCalls :
              snprintf_L(calls[m].address) = snprintf_L(calls[i].address)
                  => k <= m

\* C6: two calls of qdr_add_local_address with the same address return the
\* same address object, the ordered list and the pool hold one entry for
\* it, and its semantics and forwarder are those of the first call made
\* for that key, whatever semantics the later call passed.
C6_SameKeySameAddress ==
    \A i, j \in AddLocalCalls :
        (i < j /\ calls[i].address = calls[j].address) =>
            /\ calls[i].ret = calls[j].ret
            /\ Cardinality({n \in 1 .. Len(addrs) :
                   addr_pool[addrs[n]].hash_handle
                       = snprintf_L(calls[i].address)}) = 1
            /\ Cardinality({a \in 1 .. Len(addr_pool) :
                   addr_pool[a].hash_handle
                       = snprintf_L(calls[i].address)}) = 1
            /\ addr_pool[calls[j].ret].semantics
                   = calls[FirstWithKeyOf(i)].semantics
            /\ addr_pool[calls[j].ret].forwarder
                   = qd_router_get_forwarder(calls[FirstWithKeyOf(i)].semantics)

\* the same address asked for twice, the second time with other semantics
C6_Witness ==
    \E i, j \in AddLocalCalls :
        /\ i < j
        /\ calls[i].address = calls[j].address
        /\ calls[i].semantics # calls[j].semantics
        /\ FirstWithKeyOf(i) = i
        /\ addr_pool[calls[j].ret].semantics = calls[i].semantics

\* C7: two calls of qdr_add_local_address with different addresses, of any
\* length, return two distinct address objects, each found in the hash
\* index under the key the registry derives from its address, both in the
\* ordered list and the first one's before the second one's.
C7_DistinctKeysDistinctEntries ==
    \A i, j \in AddLocalCalls :
        (i < j /\ calls[i].address # calls[j].address) =>
            /\ calls[i].ret # calls[j].ret
            /\ qd_hash_retrieve(addr_hash, snprintf_L(calls[i].address))
                   = calls[i].ret
            /\ qd_hash_retrieve(addr_hash, snprintf_L(calls[j].address))
                   = calls[j].ret
            /\ \E m, n \in 1 .. Len(addrs) :
                   /\ addrs[m] = calls[i].ret
                   /\ addrs[n] = calls[j].ret
                   /\ (FirstWithKeyOf(i) = i /\ FirstWithKeyOf(j) = j) => m < n

\* the entries for link l that the calls made so far leave in the link list
\* of address a, when every qdr_del_link_ref of a present link removes one
RECURSIVE NetPresent(_, _, _)
NetPresent(a, l, n) ==
    IF n = 0 THEN 0
    ELSE LET before == NetPresent(a, l, n - 1)
             c      == calls[n]
         IN  IF c.list = a /\ c.obj = l /\ c.op = "add_link_ref"
             THEN before + 1
             ELSE IF c.list = a /\ c.obj = l /\ c.op = "del_link_ref"
                                 /\ before > 0
             THEN before - 1
             ELSE before

\* C9: every link list holds as many entries as were added less the
\* deletes that found their link present, and holds them in the order they
\* were inserted.
C9_NetCountInOrder ==
    \A a \in 1 .. Len(addr_pool) :
        LET rlinks == addr_pool[a].rlinks
        IN  /\ \A l \in Links :
                   Cardinality({i \in 1 .. Len(rlinks) :
                                    ref_pool[rlinks[i]].link = l})
                       = NetPresent(a, l, Len(calls))
            /\ \A i, j \in 1 .. Len(rlinks) : i < j => rlinks[i] < rlinks[j]

-----------------------------------------------------------------------------
(* Claims about qdr_field, checked under SpecField *)

CeilDiv(n, c) == (n + c - 1) \div c

RECURSIVE SumLen(_)
SumLen(bufs) == IF bufs = <<>> THEN 0 ELSE Len(Head(bufs)) + SumLen(Tail(bufs))

\* C10: when qdr_field returns a field for a text of n > 0 bytes and
\* buffers of capacity c, the chain has ceil(n / c) buffers, every buffer
\* but the last holds c bytes, the last holds n - c * (ceil(n / c) - 1)
\* bytes, which is between 1 and c, and the buffers hold n bytes in all.
C10_ChunkCount ==
    f_pc = "returned" =>
        LET n == strlen(f_text)
            c == f_cap
            k == Len(f_buffers)
        IN  /\ n > 0
            /\ k = CeilDiv(n, c)
            /\ \A i \in 1 .. (k - 1) : Len(f_buffers[i]) = c
            /\ Len(f_buffers[k]) = n - c * (CeilDiv(n, c) - 1)
            /\ Len(f_buffers[k]) \in 1 .. c
            /\ SumLen(f_buffers) = n

\* the 10,000-byte text in buffers of 4,096: 4,096, 4,096 and 1,808 bytes
C10_Witness ==
    /\ f_pc = "returned"
    /\ strlen(f_text) = 10000
    /\ f_cap = 4096
    /\ [i \in 1 .. Len(f_buffers) |-> Len(f_buffers[i])] = <<4096, 4096, 1808>>

RECURSIVE Concat(_)
Concat(bufs) == IF bufs = <<>> THEN <<>> ELSE Head(bufs) \o Concat(Tail(bufs))

\* the bytes an iterator covers: length bytes of the chain that starts at
\* buffer head, from offset on
IteratorSpan(bufs, it) ==
    LET chain == Concat(SubSeq(bufs, it.head, Len(bufs)))
    IN  SubSeq(chain, it.offset + 1, it.offset + it.length)

\* the C string text points at
CString(text) == SubSeq(text, 1, strlen(text))

\* C11 as stated: for every non-empty byte string, qdr_field returns a
\* field, the buffers of its chain joined in order are the byte string, and
\* the iterator covers exactly its bytes.
C11_RoundTripAnyBytes ==
    (~f_absent /\ f_text # <<>> /\ f_pc \in {"returned", "returned_null"}) =>
        /\ f_pc = "returned"
        /\ Concat(f_buffers) = f_text
        /\ f_iterator.length = Len(f_text)
        /\ IteratorSpan(f_buffers, f_iterator) = f_text

\* C11 as amended: for every non-empty byte string that holds no zero
\* byte, qdr_field returns a field, the buffers of its chain joined in
\* order are the byte string, and the iterator starts at the first buffer
\* and covers exactly its bytes; whether or not the length is a multiple of
\* the capacity.  Of a text with a zero byte the field holds the bytes
\* before the first one.
C11_RoundTripCString ==
    /\ (~f_absent /\ f_text # <<>> /\ strlen(f_text) = Len(f_text)
           /\ f_pc \in {"returned", "returned_null"}) =>
          /\ f_pc = "returned"
          /\ Concat(f_buffers) = f_text
          /\ f_iterator = [head |-> 1, offset |-> 0, length |-> Len(f_text)]
          /\ IteratorSpan(f_buffers, f_iterator) = f_text
    /\ f_pc = "returned" =>
          /\ Concat(f_buffers) = CString(f_text)
          /\ IteratorSpan(f_buffers, f_iterator) = CString(f_text)

\* a text that ends in a partly filled buffer, with differing bytes
C11_Witness ==
    /\ f_pc = "returned"
    /\ f_text = <<1, 2, 2, 1>>
    /\ f_buffers = << <<1, 2, 2>>, <<1>> >>

\* C12: when qdr_field_free has been given the field qdr_field made, the
\* buffers in use are those in use before qdr_field was called, as many
\* buffers were given back as were taken, no iterator and no field stays
\* in use, and nothing was given back that was not in use; given no field,
\* qdr_field_free leaves the pools as they were.
C12_FreeReleasesAll ==
    /\ f_pc = "freed" =>
          /\ f_heap.buffers = f_heap.base
          /\ f_heap.given = f_heap.taken
          /\ f_heap.taken = CeilDiv(strlen(f_text), f_cap)
          /\ f_heap.iterators = 0
          /\ f_heap.fields = 0
          /\ ~f_heap.bad_free
    /\ f_pc = "freed_null" => f_heap = Heap(f_heap.base)

\* a field of several buffers freed while another owner holds a buffer
C12_Witness ==
    /\ f_pc = "freed"
    /\ f_heap.taken >= 2
    /\ f_heap.base # {}

\* C13: qdr_field given an empty text or no text returns no field, and
\* takes no field, buffer or iterator from the pools.
C13_EmptyOrAbsentGivesNull ==
    ((f_absent \/ strlen(f_text) = 0) /\ f_pc # "call") =>
        /\ f_pc \in {"returned_null", "freed_null"}
        /\ f_heap = Heap(f_heap.base)

-----------------------------------------------------------------------------
\* C14: when qdr_core returns (nothing enqueued yet, the core thread at
\* its first statement) running is set, the action list and the ordered
\* address list are empty, the lock is free and the hash index exists;
\* and the core thread never executes a registry call against a hash
\* index that was not created.
C14_InitialisedBeforeWorker ==
    /\ (enq_order = <<>> /\ workerPc = "lock" /\ destroyPc = "idle") =>
          /\ running
          /\ action_list = <<>>
          /\ lock = NoThread
          /\ addrs = <<>>
          /\ addr_hash # NoHash
    /\ (workerPc \in {"exec", "crashed"} /\ current.op = "add_local_address")
          => addr_hash # NoHash

-----------------------------------------------------------------------------
\* C15: the core thread never holds the lock while it executes an action;
\* actions are completed one at a time, each by a step of the core thread
\* executing the action it took; the registry and its reference lists
\* change only in such a step; and producers never touch the action list
\* without holding the lock.
C15_SerialExecution ==
    /\ [](workerPc = "exec" => lock # Worker)
    /\ [](\A p \in Producers : prodPc[p] \in {"insert", "unlock"} => lock = p)
    /\ [][executed' # executed =>
            /\ workerPc = "exec" /\ workerPc' = "lock"
            /\ executed' = Append(executed, current)]_vars
    /\ [][registryVars' # registryVars =>
            workerPc = "exec" /\ workerPc' = "lock"]_vars

\* the core thread is executing an action that has changed nothing yet
\* while a producer, having taken the lock after the core thread released
\* it, has put a further action on the list; an earlier action has
\* created an address
C15_Witness ==
    /\ workerPc = "exec"
    /\ addrs # <<>>
    /\ \E p \in Producers : prodPc[p] = "unlock" /\ lock = p
    /\ action_list # <<>>

-----------------------------------------------------------------------------
\* the entries present in the link reference list of address a
PresentLinkRefs(a) == Range(addr_pool[a].rlinks)

\* C16: every entry present in a link reference list is the entry its
\* link's ref field names, and a link whose ref field is set names an
\* entry that is present in some list.
C16_BackReference ==
    /\ \A a \in 1 .. Len(addr_pool) : \A e \in PresentLinkRefs(a) :
          link_ref[ref_pool[e].link] = e
    /\ \A l \in Links : link_ref[l] # NULL =>
          \E a \in 1 .. Len(addr_pool) : link_ref[l] \in PresentLinkRefs(a)

-----------------------------------------------------------------------------
\* the positions of a node reference list whose entry refers to rnode
NodeEntries(rnodes, rnode) ==
    {i \in 1 .. Len(rnodes) : rnodes[i].node = rnode}

\* C17: a call qdr_add_node_ref(list, rnode) leaves the list one entry
\* longer, the entries it had unchanged and in place and the new tail
\* referring to rnode; a call qdr_del_node_ref(list, rnode) for a node
\* with an entry in the list leaves the list one entry shorter, with one
\* entry of that node fewer than before.
C17_NodeRefAppendRemove ==
    [][Len(calls') = Len(calls) + 1 =>
          LET c   == calls'[Len(calls')]
              old == addr_pool[c.list].rnodes
              new == addr_pool'[c.list].rnodes
          IN  /\ c.op = "add_node_ref" =>
                    /\ Len(new) = Len(old) + 1
                    /\ SubSeq(new, 1, Len(old)) = old
                    /\ new[Len(new)].node = c.obj
              /\ (c.op = "del_node_ref" /\ NodeEntries(old, c.obj) # {}) =>
                    /\ Len(new) = Len(old) - 1
                    /\ Cardinality(NodeEntries(new, c.obj))
                          = Cardinality(NodeEntries(old, c.obj)) - 1]_vars

-----------------------------------------------------------------------------
\* the calls before the latest that gave qdr_add_local_address the address
\* the latest call gave it
EarlierSameAddress ==
    {i \in 1 .. Len(calls) - 1 :
        /\ calls[i].op = "add_local_address"
        /\ calls[i].address = calls[Len(calls)].address}

\* C18: a call of qdr_add_local_address with an address given to it before
\* returns the entry made then and leaves the hash index, the ordered
\* address list, every address (its semantics, block_deletion flag and
\* both reference lists), the reference entries and the links' handles as
\* they were.
C18_HitChangesNothing ==
    [][(/\ Len(calls') = Len(calls) + 1
        /\ calls'[Len(calls')].op = "add_local_address"
        /\ \E i \in 1 .. Len(calls) :
              /\ calls[i].op = "add_local_address"
              /\ calls[i].address = calls'[Len(calls')].address)
       => /\ registryVars' = registryVars
          /\ \E i \in 1 .. Len(calls) :
                /\ calls[i].op = "add_local_address"
                /\ calls[i].address = calls'[Len(calls')].address
                /\ calls[i].ret = calls'[Len(calls')].ret]_vars

\* the latest call found an address that by then had a link reference
C18_Witness ==
    /\ calls # <<>>
    /\ calls[Len(calls)].op = "add_local_address"
    /\ EarlierSameAddress # {}
    /\ addr_pool[calls[Len(calls)].ret].rlinks # <<>>
    /\ addr_pool[calls[Len(calls)].ret].semantics
          # calls[Len(calls)].semantics

-----------------------------------------------------------------------------
\* the links with an entry in the link reference list of address a
LinksIn(a) == {ref_pool[e].link : e \in PresentLinkRefs(a)}

\* C19: a call of qdr_del_link_ref or qdr_del_node_ref for a link or node
\* with no entry in the list given returns nothing and leaves that list,
\* every other reference list, the links' handles, the ordered address
\* list and the hash index as they were.
C19_AbsentDeleteIsNoOp ==
    [][Len(calls') = Len(calls) + 1 =>
          LET c == calls'[Len(calls')]
          IN  \/ c.op \notin {"del_link_ref", "del_node_ref"}
              \/ c.op = "del_link_ref" /\ c.obj \in LinksIn(c.list)
              \/ c.op = "del_node_ref"
                    /\ NodeEntries(addr_pool[c.list].rnodes, c.obj) # {}
              \/ registryVars' = registryVars /\ c.ret = NULL]_vars

\* the latest call is a delete for a link with no entry in a list that
\* holds an entry of another link
C19_Witness ==
    /\ calls # <<>>
    /\ calls[Len(calls)].op = "del_link_ref"
    /\ calls[Len(calls)].obj \notin LinksIn(calls[Len(calls)].list)
    /\ LinksIn(calls[Len(calls)].list) # {}

-----------------------------------------------------------------------------
\* the keys of the hash index and the entries it holds
HashKeys == DOMAIN addr_hash[1]
HashEntries == {addr_hash[1][k] : k \in HashKeys}

\* C20: the entries the hash index holds are the entries on the ordered
\* address list, each on the list once and held under one key, the key it
\* was created with (its hash_handle); every call of
\* qdr_add_local_address so far would find the entry it returned again;
\* and a step never takes an entry off the list, moves one, or changes
\* what a key of the index leads to.
C20_IndexAndListAgree ==
    /\ [](/\ HashEntries = Range(addrs)
          /\ \A i, j \in 1 .. Len(addrs) : addrs[i] = addrs[j] => i = j
          /\ \A k1, k2 \in HashKeys :
                addr_hash[1][k1] = addr_hash[1][k2] => k1 = k2
          /\ \A i \in 1 .. Len(addrs) :
                qd_hash_retrieve(addr_hash, addr_pool[addrs[i]].hash_handle)
                   = addrs[i]
          /\ \A i \in AddLocalCalls :
                qd_hash_retrieve(addr_hash, snprintf_L(calls[i].address))
                   = calls[i].ret)
    /\ [][/\ Len(addrs') >= Len(addrs)
          /\ SubSeq(addrs', 1, Len(addrs)) = addrs
          /\ \A k \in HashKeys :
                qd_hash_retrieve(addr_hash', k) = addr_hash[1][k]]_vars

\* three calls have made two entries: one call found an entry made before
C20_Witness ==
    /\ Len(addrs) = 2
    /\ Cardinality(AddLocalCalls) = 3

=============================================================================
